---- MODULE Spec2Model ----
(***************************************************************************)
(* AuthService (src/src/modules/auth/auth.service.ts): register, login and *)
(* refreshToken, run as concurrent calls against the user, session and     *)
(* verification-code collections.  Every `await` on a store operation is a *)
(* point where another call may run, so each handler is cut into one       *)
(* action per store operation: the action performs the store operation and *)
(* the synchronous code that follows it up to the next store operation.    *)
(*                                                                         *)
(* A call that has produced its result is handed to its caller (Return)    *)
(* before anything else moves: the state in which a call is "done" shows   *)
(* the stores exactly as the call left them.                               *)
(*                                                                         *)
(* Time is in milliseconds, as Date.now() gives it.  The clock is explored *)
(* at a granularity of TickMs.                                             *)
(***************************************************************************)
EXTENDS Integers, Sequences, FiniteSets, TLC

\* ---------------------------------------------------------------- bounds
NumCalls == 2          \* calls that can be in flight together
MaxSessions == 2       \* logins stop creating sessions beyond this
MaxTicks == 3          \* the clock stops after MaxTicks ticks
MaxCalls == 3          \* calls started in one run
TickMs == 43200000     \* clock granularity: 12 hours

Procs == 1..NumCalls
MaxNow == MaxTicks * TickMs

\* ------------------------------------------------------------- constants
\* date-time.ts: ONE_DAY_IN_MS = 24 * 60 * 60 * 1000
ONE_DAY_IN_MS == 86400000
\* date-time.ts: fortyFiveMinutesFromNow adds 45 * 60 * 1000
FORTY_FIVE_MINUTES_IN_MS == 2700000

\* config.JWT.REFRESH_EXPIRES_IN, as milliseconds: the value a deployment
\* configures; explored here are 12 hours and 36 hours
RefreshTTLs == {ONE_DAY_IN_MS \div 2, ONE_DAY_IN_MS + ONE_DAY_IN_MS \div 2}
\* config.JWT.EXPIRES_IN, as milliseconds (access tokens)
AccessTTL == TickMs

\* the two signing secrets (config.JWT.SECRET, config.JWT.REFRESH_SECRET)
AccessSecret == "JWT_SECRET"
RefreshSecret == "JWT_REFRESH_SECRET"

\* ---------------------------------------------------------------- inputs
\* m@x.io has an account with 2FA enabled, u@x.io one without, a@x.io none
Emails == {"m@x.io", "u@x.io", "a@x.io"}
Passwords == {"pw1", "pw2"}
UserAgents == {"ua1"}
Names == {"n1"}
\* the passwords register is called with
NewPasswords == {"pw1"}
\* id of a session that was deleted from the store before the run starts:
\* no login of the run is given it
DeletedSessionId == MaxSessions + 1

VARIABLES
    now,        \* Date.now()
    ttl,        \* config.JWT.REFRESH_EXPIRES_IN in ms
    users,      \* UserModel collection: sequence of user documents, _id = index
    sessions,   \* SessionModel collection: sequence of documents, _id = index
    codes,      \* VerificationCodeModel collection
    calls,      \* the calls in flight: one record per slot
    issued,     \* tokens that were returned to callers
    logins,     \* number of logins that have returned tokens to their caller
    started     \* number of calls started

vars == <<now, ttl, users, sessions, codes, calls, issued, logins, started>>

\* ------------------------------------------------------------ token codec
\* A token: the secret it was signed with, the names of the payload fields,
\* their values (0 for a field the payload does not have) and its expiry.
NoToken == [secret |-> "undefined", claims |-> {}, userId |-> 0, sessionId |-> 0, exp |-> 0]
EmptyString == [secret |-> "", claims |-> {}, userId |-> 0, sessionId |-> 0, exp |-> 0]
Malformed == [secret |-> "malformed", claims |-> {}, userId |-> 0, sessionId |-> 0, exp |-> 0]

\* refreshTokenSignOptions = {expiresIn: REFRESH_EXPIRES_IN, secret: REFRESH_SECRET}
refreshTokenSignOptions == [secret |-> RefreshSecret, expiresIn |-> ttl]
\* the default options of signJwtToken
accessTokenSignOptions == [secret |-> AccessSecret, expiresIn |-> AccessTTL]

\* signJwtToken(payload, options): payload + expiry, signed with options.secret
signJwtToken(claims, userId, sessionId, options) ==
    [secret |-> options.secret, claims |-> claims, userId |-> userId,
     sessionId |-> sessionId, exp |-> now + options.expiresIn]

NoPayload == [claims |-> {}, userId |-> 0, sessionId |-> 0]

\* verifyJwtToken(token, {secret}): the payload, or none when the signature
\* does not match the secret, the token is malformed or it has expired
verifyJwtToken(token, secret) ==
    IF token.secret = secret /\ token.exp > now
    THEN [claims |-> token.claims, userId |-> token.userId, sessionId |-> token.sessionId]
    ELSE NoPayload

\* ------------------------------------------------------------------ stores
NoUser == [id |-> 0, name |-> "", email |-> "", password |-> <<>>, enable2FA |-> FALSE]
NoSession == [id |-> 0, userId |-> 0, userAgent |-> "", expiredAt |-> 0]

\* the user model's pre-save hook stores a hash of the password
HashValue(password) == <<"hash", password>>
\* user.comparePassword(password)
comparePassword(user, password) == user.password = HashValue(password)

\* UserModel.exists({email})
UserExists(email) == \E i \in 1..Len(users) : users[i].email = email
\* UserModel.findOne({email})
FindUser(email) ==
    IF UserExists(email)
    THEN users[CHOOSE i \in 1..Len(users) : users[i].email = email]
    ELSE NoUser
\* SessionModel.findById(id)
FindSession(id) == IF id \in 1..Len(sessions) THEN sessions[id] ELSE NoSession

\* ------------------------------------------------------------------- calls
NoResult ==
    [status |-> "none", exception |-> "", code |-> "", message |-> "",
     user |-> NoUser, mfaRequired |-> FALSE,
     accessToken |-> NoToken, refreshToken |-> NoToken,
     newRefreshToken |-> NoToken]

Idle ==
    [pc |-> "idle", op |-> "", email |-> "", password |-> "", userAgent |-> "",
     name |-> "", token |-> NoToken, user |-> NoUser, session |-> NoSession,
     now |-> 0, readExpiredAt |-> 0, sessionReads |-> 0, sessionWrites |-> 0,
     replaced |-> 0, userCreates |-> 0, res |-> NoResult]

Failure(exception, code, message) ==
    [NoResult EXCEPT !.status = "error", !.exception = exception,
                     !.code = code, !.message = message]

\* no call has a result waiting to be handed to its caller
NoneDone == \A q \in Procs : calls[q].pc # "done"

\* a call starts in slot p: the lowest slot that is not in use
Start(p) ==
    /\ NoneDone
    /\ calls[p].pc = "idle"
    /\ \A q \in Procs : q < p => calls[q].pc # "idle"
    /\ started < MaxCalls
    /\ started' = started + 1

IsToken(t) == t.secret \in {AccessSecret, RefreshSecret}
\* the tokens a result hands to the caller
TokensOf(res) ==
    {t \in {res.accessToken, res.refreshToken, res.newRefreshToken} : IsToken(t)}

\* the call in slot p moves on to c
Step(p, c) ==
    /\ NoneDone
    /\ calls' = [calls EXCEPT ![p] = c]
    /\ issued' = issued

\* a login that returned tokens (not a failure, not the MFA short-circuit)
CompletedLogin(c) ==
    c.pc = "done" /\ c.op = "login" /\ c.res.status = "ok" /\ ~c.res.mfaRequired

\* the caller receives the result of the call in slot p: the tokens in it
\* are in its hands from now on, and the slot is free again
Return(p) ==
    /\ calls[p].pc = "done"
    /\ issued' = issued \cup TokensOf(calls[p].res)
    /\ calls' = [calls EXCEPT ![p] = Idle]
    /\ logins' = IF CompletedLogin(calls[p]) THEN logins + 1 ELSE logins
    /\ UNCHANGED <<now, ttl, users, sessions, codes, started>>

Init ==
    /\ now = 0
    /\ ttl \in RefreshTTLs
    /\ users = << [id |-> 1, name |-> "n1", email |-> "m@x.io",
                   password |-> HashValue("pw1"), enable2FA |-> TRUE],
                  [id |-> 2, name |-> "n1", email |-> "u@x.io",
                   password |-> HashValue("pw1"), enable2FA |-> FALSE] >>
    /\ sessions = << >>
    /\ codes = << >>
    /\ calls = [p \in Procs |-> Idle]
    /\ issued = {[secret |-> RefreshSecret, claims |-> {"sessionId"}, userId |-> 0,
                   sessionId |-> DeletedSessionId, exp |-> MaxNow + TickMs]}
    /\ logins = 0
    /\ started = 0

\* ------------------------------------------------------------------- clock
Tick ==
    /\ NoneDone
    /\ now + TickMs <= MaxNow
    /\ now' = now + TickMs
    /\ UNCHANGED <<ttl, users, sessions, codes, calls, issued, logins, started>>

\* ---------------------------------------------------------------- register
\* lines 22-25: the failure of register for an email that is taken
RegisterDuplicateFailure ==
    Failure("BadRequestException", "AUTH_EMAIL_ALREADY_EXISTS",
            "User already exists with this email")

\* the user collection's unique index on email rejects a second document;
\* the store surfaces the conflict as the same condition
UserModelCreateConflict ==
    Failure("BadRequestException", "AUTH_EMAIL_ALREADY_EXISTS",
            "User already exists with this email")

\* the existence check left out
EmailTaken_unchecked(email) == FALSE
\* lines 17-21: existingUser, the result of UserModel.exists({email})
EmailTaken(email) == UserExists(email)

\* lines 14-26: UserModel.exists, then the throw or the way on to create
RegisterExists(p, name, email, password) ==
    /\ Start(p)
    /\ LET c == [Idle EXCEPT !.op = "register", !.name = name,
                             !.email = email, !.password = password]
       IN Step(p,
            IF EmailTaken(email)
            THEN [c EXCEPT !.pc = "done", !.res = RegisterDuplicateFailure]
            ELSE [c EXCEPT !.pc = "register_create"])
    /\ UNCHANGED <<now, ttl, users, sessions, codes, logins>>

\* the rejection of UserModel.create replaced by a generic failure
RegisterCreateFailure_generic(storeError) ==
    Failure("InternalServerException", "INTERNAL_SERVER_ERROR", "Internal Server Error")
\* lines 27-31: no try/catch around UserModel.create: its rejection is what
\* register fails with
RegisterCreateFailure(storeError) == storeError

\* lines 27-33: UserModel.create
RegisterCreateUser(p) ==
    /\ calls[p].pc = "register_create"
    /\ LET c == [calls[p] EXCEPT !.userCreates = 1]
           newUser == [id |-> Len(users) + 1, name |-> c.name, email |-> c.email,
                       password |-> HashValue(c.password), enable2FA |-> FALSE]
       IN IF UserExists(c.email)
          THEN /\ Step(p,
                     [c EXCEPT !.pc = "done",
                               !.res = RegisterCreateFailure(UserModelCreateConflict)])
               /\ users' = users
          ELSE /\ users' = Append(users, newUser)
               /\ Step(p,
                     [c EXCEPT !.pc = "register_verification", !.user = newUser])
    /\ UNCHANGED <<now, ttl, sessions, codes, logins, started>>

\* fortyFiveMinutesFromNow()
fortyFiveMinutesFromNow == now + FORTY_FIVE_MINUTES_IN_MS

\* the verification code created with the type of a password reset
VerificationDocument_passwordReset(userId) ==
    [userId |-> userId, type |-> "PASSWORD_RESET",
     expiresAt |-> fortyFiveMinutesFromNow]
\* lines 35-39: the document register hands to VerificationCodeModel.create
VerificationDocument(userId) ==
    [userId |-> userId, type |-> "EMAIL_VERIFICATION",
     expiresAt |-> fortyFiveMinutesFromNow]

\* lines 35-45: VerificationCodeModel.create, then the return
RegisterCreateVerification(p) ==
    /\ calls[p].pc = "register_verification"
    /\ codes' = Append(codes, VerificationDocument(calls[p].user.id))
    /\ Step(p,
          [calls[p] EXCEPT !.pc = "done",
                           !.res = [NoResult EXCEPT !.status = "ok",
                                                    !.user = calls[p].user]])
    /\ UNCHANGED <<now, ttl, users, sessions, logins, started>>

\* ------------------------------------------------------------------- login
\* lines 58-61: the failure of login for an email no user has
LoginNoUserFailure ==
    Failure("BadRequestException", "AUTH_USER_NOT_FOUND",
            "Invalid email or password provided")
\* a failure that tells a wrong password from an unknown email
LoginBadPasswordFailure_distinct ==
    Failure("BadRequestException", "AUTH_USER_NOT_FOUND", "Invalid password provided")
\* lines 67-70: the failure of login for a password that does not match
LoginBadPasswordFailure ==
    Failure("BadRequestException", "AUTH_USER_NOT_FOUND",
            "Invalid email or password provided")
\* the 2FA flag looked at ahead of the password comparison
isPasswordValid_mfaFirst(user, password) ==
    user.enable2FA \/ comparePassword(user, password)
\* line 64: isPasswordValid, the result of user.comparePassword(password)
isPasswordValid(user, password) == comparePassword(user, password)
\* the MFA gate left out
MfaGate_off(user) == FALSE
\* line 74: the MFA gate
MfaGate(user) == user.enable2FA
\* lines 76-81: what login returns when the user has 2FA enabled
MfaRequiredResult ==
    [NoResult EXCEPT !.status = "ok", !.user = NoUser, !.mfaRequired = TRUE,
                     !.accessToken = EmptyString, !.refreshToken = EmptyString]

\* sessions that exist or are about to be created by a login in flight
SessionsClaimed ==
    Len(sessions) + Cardinality({q \in Procs : calls[q].pc = "login_create"})

\* lines 48-82: UserModel.findOne, the password comparison and the MFA gate
LoginFind(p, email, password, userAgent) ==
    /\ Start(p)
    /\ SessionsClaimed < MaxSessions
    /\ LET c == [Idle EXCEPT !.op = "login", !.email = email,
                             !.password = password, !.userAgent = userAgent]
           user == FindUser(email)
       IN Step(p,
            IF user = NoUser
            THEN [c EXCEPT !.pc = "done", !.res = LoginNoUserFailure]
            ELSE IF ~isPasswordValid(user, password)
            THEN [c EXCEPT !.pc = "done", !.user = user, !.res = LoginBadPasswordFailure]
            ELSE IF MfaGate(user)
            THEN [c EXCEPT !.pc = "done", !.user = user, !.res = MfaRequiredResult]
            ELSE [c EXCEPT !.pc = "login_create", !.user = user])
    /\ UNCHANGED <<now, ttl, users, sessions, codes, logins>>

\* the session schema's default for expiredAt: now + refresh TTL
SessionDefaultExpiredAt == now + ttl

\* lines 91-94: the access token of a login
LoginAccessToken(user, session) ==
    signJwtToken({"userId", "sessionId"}, user.id, session.id, accessTokenSignOptions)
\* the refresh token given the payload of the access token
LoginRefreshToken_withUserId(user, session) ==
    signJwtToken({"userId", "sessionId"}, user.id, session.id, refreshTokenSignOptions)
\* lines 96-101: the refresh token of a login
LoginRefreshToken(user, session) ==
    signJwtToken({"sessionId"}, 0, session.id, refreshTokenSignOptions)

\* login setting a one-day expiredAt on the session it creates
LoginNewSession_oneDay(user, userAgent) ==
    [id |-> Len(sessions) + 1, userId |-> user.id, userAgent |-> userAgent,
     expiredAt |-> now + ONE_DAY_IN_MS]
\* lines 85-88: the document login hands to SessionModel.create
LoginNewSession(user, userAgent) ==
    [id |-> Len(sessions) + 1, userId |-> user.id, userAgent |-> userAgent,
     expiredAt |-> SessionDefaultExpiredAt]

\* login writing to the user's existing session instead of creating one
LoginCreate_reuse(p) ==
    /\ calls[p].pc = "login_create"
    /\ LET c == calls[p]
           mine == {i \in 1..Len(sessions) : sessions[i].userId = c.user.id}
           new == LoginNewSession(c.user, c.userAgent)
           session == IF mine = {} THEN new
                      ELSE [new EXCEPT !.id = CHOOSE i \in mine : TRUE]
       IN /\ sessions' = IF mine = {} THEN Append(sessions, session)
                         ELSE [sessions EXCEPT ![session.id] = session]
          /\ Step(p,
                [c EXCEPT !.pc = "done", !.session = session,
                          !.sessionWrites = c.sessionWrites + 1,
                          !.res = [NoResult EXCEPT
                                     !.status = "ok", !.user = c.user,
                                     !.mfaRequired = FALSE,
                                     !.accessToken = LoginAccessToken(c.user, session),
                                     !.refreshToken = LoginRefreshToken(c.user, session)]])
    /\ UNCHANGED <<now, ttl, users, codes, logins, started>>
\* lines 84-109: SessionModel.create, the two tokens and the return
LoginCreate(p) ==
    /\ calls[p].pc = "login_create"
    /\ LET c == calls[p]
           session == LoginNewSession(c.user, c.userAgent)
       IN /\ sessions' = Append(sessions, session)
          /\ Step(p,
                [c EXCEPT !.pc = "done", !.session = session,
                          !.sessionWrites = c.sessionWrites + 1,
                          !.res = [NoResult EXCEPT
                                     !.status = "ok", !.user = c.user,
                                     !.mfaRequired = FALSE,
                                     !.accessToken = LoginAccessToken(c.user, session),
                                     !.refreshToken = LoginRefreshToken(c.user, session)]])
    /\ UNCHANGED <<now, ttl, users, codes, logins, started>>

\* ------------------------------------------------------------ refreshToken
\* a token with a signature no secret of the service made
Forged(sessionId) ==
    [secret |-> "forged", claims |-> {"sessionId"}, userId |-> 0,
     sessionId |-> sessionId, exp |-> MaxNow + TickMs]

\* what a caller can present: any token it was given, or one it made up
RefreshInputs == issued \cup {Malformed, Forged(1)}

\* verifyJwtToken called without the refresh secret: its default applies
RefreshVerifySecret_default == accessTokenSignOptions.secret
\* lines 113-115: the secret refreshToken verifies under
RefreshVerifySecret == refreshTokenSignOptions.secret

\* the result of verifyJwtToken not looked at
InvalidPayload_unchecked(payload) == FALSE
\* line 117: !payload
InvalidPayload(payload) == payload = NoPayload

\* lines 112-121: verifyJwtToken, the throw, or SessionModel.findById
RefreshVerify(p, token) ==
    /\ Start(p)
    /\ LET c == [Idle EXCEPT !.op = "refresh", !.token = token]
           payload == verifyJwtToken(token, RefreshVerifySecret)
           session == FindSession(payload.sessionId)
       IN Step(p,
            IF InvalidPayload(payload)
            THEN [c EXCEPT !.pc = "done",
                           !.res = Failure("UnauthorizedException", "",
                                           "Invalid refresh token")]
            ELSE [c EXCEPT !.pc = "refresh_check", !.session = session,
                           !.readExpiredAt = session.expiredAt,
                           !.sessionReads = 1])
    /\ UNCHANGED <<now, ttl, users, sessions, codes, logins>>

\* the check for a missing session left out
SessionMissing_unchecked(session) == FALSE
\* line 124: !session
SessionMissing(session) == session = NoSession
\* the comparison of the expiry check the wrong way round
SessionExpired_reversed(expiredAt, n) == expiredAt >= n
\* the expiry check left out
SessionExpired_never(expiredAt, n) == FALSE
\* line 128: session.expiredAt.getTime() <= now
SessionExpired(expiredAt, n) == expiredAt <= n
\* the threshold left out of the rotation window
sessionRequireRefresh_strict(expiredAt, n) == expiredAt - n < ONE_DAY_IN_MS
\* every refresh rotates
sessionRequireRefresh_always(expiredAt, n) == TRUE
\* lines 132-133: session.expiredAt.getTime() - now <= ONE_DAY_IN_MS
sessionRequireRefresh(expiredAt, n) == expiredAt - n <= ONE_DAY_IN_MS
\* calculateExpirationDate(config.JWT.REFRESH_EXPIRES_IN)
calculateExpirationDate(expiresIn) == now + expiresIn

\* a rotation that hands out no new refresh token
RotatedRefreshToken_none(session) == NoToken
\* lines 142-148: the new refresh token of a rotation
RotatedRefreshToken(session) ==
    signJwtToken({"sessionId"}, 0, session.id, refreshTokenSignOptions)
\* the access token of a refresh signed with the payload of a refresh token
RefreshAccessToken_noUser(session) ==
    signJwtToken({"sessionId"}, 0, session.id, accessTokenSignOptions)
\* lines 150-153: the access token of a refresh
RefreshAccessToken(session) ==
    signJwtToken({"userId", "sessionId"}, session.userId, session.id,
                 accessTokenSignOptions)

\* lines 122-138 (and 142-158 when no rotation is due): Date.now(), the two
\* throws, the rotation decision and the new expiredAt on the local document
RefreshCheck(p) ==
    /\ calls[p].pc = "refresh_check"
    /\ LET c == [calls[p] EXCEPT !.now = now]
       IN Step(p,
            IF SessionMissing(c.session)
            THEN [c EXCEPT !.pc = "done",
                           !.res = Failure("UnauthorizedException", "",
                                           "Session does not exist")]
            ELSE IF SessionExpired(c.session.expiredAt, c.now)
            THEN [c EXCEPT !.pc = "done",
                           !.res = Failure("UnauthorizedException", "",
                                           "Session expired")]
            ELSE IF sessionRequireRefresh(c.session.expiredAt, c.now)
            THEN [c EXCEPT !.pc = "refresh_save",
                           !.session.expiredAt = calculateExpirationDate(ttl)]
            ELSE [c EXCEPT !.pc = "done",
                           !.res = [NoResult EXCEPT
                                      !.status = "ok",
                                      !.accessToken = RefreshAccessToken(c.session),
                                      !.newRefreshToken = NoToken]])
    /\ UNCHANGED <<now, ttl, users, sessions, codes, logins, started>>

\* session.save(): the modified path, expiredAt, is written to the document
SessionSave(session) ==
    [sessions EXCEPT ![session.id].expiredAt = session.expiredAt]

\* lines 139-158: session.save(), the two tokens and the return
RefreshSave(p) ==
    /\ calls[p].pc = "refresh_save"
    /\ LET c == calls[p]
       IN /\ sessions' = SessionSave(c.session)
          /\ Step(p,
                [c EXCEPT !.pc = "done",
                          !.sessionWrites = c.sessionWrites + 1,
                          !.replaced = sessions[c.session.id].expiredAt,
                          !.res = [NoResult EXCEPT
                                     !.status = "ok",
                                     !.accessToken = RefreshAccessToken(c.session),
                                     !.newRefreshToken = RotatedRefreshToken(c.session)]])
    /\ UNCHANGED <<now, ttl, users, codes, logins, started>>

Next ==
    \/ Tick
    \/ \E p \in Procs :
        \/ \E name \in Names, email \in Emails, password \in NewPasswords :
              RegisterExists(p, name, email, password)
        \/ RegisterCreateUser(p)
        \/ RegisterCreateVerification(p)
        \/ \E email \in Emails, password \in Passwords, userAgent \in UserAgents :
              LoginFind(p, email, password, userAgent)
        \/ LoginCreate(p)
        \/ \E token \in RefreshInputs : RefreshVerify(p, token)
        \/ RefreshCheck(p)
        \/ RefreshSave(p)
        \/ Return(p)

Spec == Init /\ [][Next]_vars

\* ------------------------------------------------------------ properties
\* a refreshToken call that has returned after reading session document s
\* (its token verified and findById found the session)
RefreshReturned(c) ==
    c.pc = "done" /\ c.op = "refresh" /\ c.sessionReads = 1 /\ c.session # NoSession

\* what is left of the session's life when the call takes Date.now()
Remaining(c) == c.readExpiredAt - c.now

UnauthorizedWith(res, message) ==
    /\ res.status = "error"
    /\ res.exception = "UnauthorizedException"
    /\ res.message = message
    /\ TokensOf(res) = {}

\* C1: a refreshToken call whose token verifies, whose session exists and
\* has 0 < expiredAt - now <= ONE_DAY_IN_MS (the threshold included) rotates:
\* it succeeds, the stored expiredAt is now + refresh TTL, and it returns a
\* new refresh token that embeds the session id of the presented token.
C1_RotationWithinThreshold ==
    \A p \in Procs :
        LET c == calls[p] IN
        (RefreshReturned(c) /\ 0 < Remaining(c) /\ Remaining(c) <= ONE_DAY_IN_MS)
        => /\ c.res.status = "ok"
           /\ c.sessionWrites = 1
           /\ sessions[c.token.sessionId].expiredAt = c.now + ttl
           /\ c.res.newRefreshToken.secret = RefreshSecret
           /\ c.res.newRefreshToken.claims = {"sessionId"}
           /\ c.res.newRefreshToken.sessionId = c.token.sessionId
           /\ c.res.accessToken.secret = AccessSecret

\* a rotation exactly at the threshold has returned
C1_Witness ==
    \E p \in Procs :
        /\ RefreshReturned(calls[p])
        /\ Remaining(calls[p]) = ONE_DAY_IN_MS
        /\ calls[p].res.newRefreshToken.sessionId = calls[p].token.sessionId
        /\ calls[p].res.newRefreshToken.secret = RefreshSecret

\* the result and the store after a refresh above the threshold
C2_Inv ==
    \A p \in Procs :
        LET c == calls[p] IN
        (RefreshReturned(c) /\ Remaining(c) > ONE_DAY_IN_MS)
        => /\ c.res.status = "ok"
           /\ c.res.accessToken.secret = AccessSecret
           /\ c.res.accessToken.exp = now + AccessTTL
           /\ c.res.newRefreshToken = NoToken
           /\ c.sessionWrites = 0

\* the returning step of such a refresh writes no store
C2_Frame ==
    \A p \in Procs :
        (/\ calls[p].pc = "refresh_check"
         /\ calls'[p].pc = "done"
         /\ calls'[p].session # NoSession
         /\ Remaining(calls'[p]) > ONE_DAY_IN_MS)
        => UNCHANGED <<sessions, users, codes>>

\* C2: a refreshToken call whose token verifies, whose session exists and
\* has expiredAt - now > ONE_DAY_IN_MS succeeds with a fresh access token and
\* an undefined newRefreshToken, and no step of the call writes a store.
C2_NoRotationAboveThreshold == []C2_Inv /\ [][C2_Frame]_vars

\* a refresh above the threshold has returned
C2_Witness ==
    \E p \in Procs :
        /\ RefreshReturned(calls[p])
        /\ Remaining(calls[p]) > ONE_DAY_IN_MS
        /\ calls[p].res.status = "ok"

\* the result and the store after a refresh of an expired session
C3_Inv ==
    \A p \in Procs :
        LET c == calls[p] IN
        (RefreshReturned(c) /\ c.readExpiredAt < c.now)
        => /\ UnauthorizedWith(c.res, "Session expired")
           /\ c.sessionWrites = 0

\* the step that finds the session expired returns and writes nothing
C3_Frame ==
    \A p \in Procs :
        (/\ calls[p].pc = "refresh_check"
         /\ calls[p].session # NoSession
         /\ calls[p].session.expiredAt < now
         /\ calls'[p] # calls[p])
        => calls'[p].pc = "done" /\ UNCHANGED <<sessions, users, codes, issued>>

\* C3: a refreshToken call that finds its session's expiredAt in the past
\* fails with Unauthorized "Session expired", returns no token, and no step
\* of the call writes the session store.
C3_ExpiredSessionFails == []C3_Inv /\ [][C3_Frame]_vars

\* a refresh of a session already in the past has returned
C3_Witness ==
    \E p \in Procs :
        /\ RefreshReturned(calls[p])
        /\ calls[p].readExpiredAt < calls[p].now
        /\ calls[p].res.message = "Session expired"

\* C4: a refreshToken call with a malformed or wrongly signed token fails
\* with Unauthorized "Invalid refresh token" without a read or a write of
\* the session store, whatever the store holds.
C4_InvalidTokenBeforeLookup ==
    \A p \in Procs :
        LET c == calls[p] IN
        (c.op = "refresh" /\ c.token.secret # RefreshSecret)
        => /\ c.pc = "done"
           /\ UnauthorizedWith(c.res, "Invalid refresh token")
           /\ c.sessionReads = 0
           /\ c.sessionWrites = 0
           /\ c.session = NoSession

\* a forged token that names an existing session was rejected
C4_Witness ==
    \E p \in Procs :
        /\ calls[p].pc = "done"
        /\ calls[p].op = "refresh"
        /\ calls[p].token.secret = "forged"
        /\ calls[p].token.sessionId \in 1..Len(sessions)
        /\ calls[p].res.message = "Invalid refresh token"

\* the result and the store after a login without 2FA
C5_Inv ==
    /\ Len(sessions) = logins + Cardinality({p \in Procs : CompletedLogin(calls[p])})
    /\ \A p \in Procs :
        LET c == calls[p] IN
        (/\ c.pc = "done" /\ c.op = "login" /\ c.user # NoUser
         /\ comparePassword(c.user, c.password) /\ ~c.user.enable2FA)
        => /\ c.res.status = "ok"
           /\ c.res.mfaRequired = FALSE
           /\ c.res.user = c.user
           /\ c.session.id = Len(sessions)
           /\ sessions[c.session.id].userId = c.user.id
           /\ sessions[c.session.id].userAgent = c.userAgent
           /\ c.res.accessToken.secret = AccessSecret
           /\ c.res.accessToken.claims = {"userId", "sessionId"}
           /\ c.res.accessToken.userId = c.user.id
           /\ c.res.accessToken.sessionId = c.session.id
           /\ c.res.refreshToken.secret = RefreshSecret
           /\ c.res.refreshToken.claims = {"sessionId"}
           /\ c.res.refreshToken.userId = 0
           /\ c.res.refreshToken.sessionId = c.session.id

\* a session appears exactly when a login returns tokens; none is altered
C5_Act ==
    /\ Len(sessions') \in {Len(sessions), Len(sessions) + 1}
    /\ \A i \in 1..Len(sessions) :
          /\ sessions'[i].userId = sessions[i].userId
          /\ sessions'[i].userAgent = sessions[i].userAgent
    /\ (Len(sessions') = Len(sessions) + 1)
         <=> (\E p \in Procs : CompletedLogin(calls'[p]) /\ ~CompletedLogin(calls[p]))

\* C5: a login of a user without 2FA whose password matches creates exactly
\* one session (owned by the user, with the given userAgent) and returns
\* mfaRequired false, an access token embedding {userId, sessionId} and a
\* refresh token embedding only {sessionId}, both with the id of the new
\* session; the number of sessions is the number of such logins.
C5_OneSessionPerLogin == []C5_Inv /\ [][C5_Act]_vars

\* a login without 2FA has returned its tokens
C5_Witness ==
    \E p \in Procs :
        /\ CompletedLogin(calls[p])
        /\ calls[p].res.refreshToken.sessionId = Len(sessions)
        /\ Len(sessions) = 2

\* C6: a login with the right password for a user with 2FA enabled creates
\* no session and returns {user: null, mfaRequired: true, accessToken: "",
\* refreshToken: ""}; no session in the store belongs to a user with 2FA.
C6_MfaLoginCreatesNoSession ==
    /\ \A p \in Procs :
        LET c == calls[p] IN
        (/\ c.pc = "done" /\ c.op = "login" /\ c.user # NoUser
         /\ comparePassword(c.user, c.password) /\ c.user.enable2FA)
        => /\ c.res.status = "ok"
           /\ c.res.user = NoUser
           /\ c.res.mfaRequired = TRUE
           /\ c.res.accessToken = EmptyString
           /\ c.res.refreshToken = EmptyString
           /\ c.sessionWrites = 0
    /\ \A i \in 1..Len(sessions) : ~users[sessions[i].userId].enable2FA
    /\ \A p \in Procs : calls[p].pc = "login_create" => ~calls[p].user.enable2FA

\* the MFA short-circuit has returned
C6_Witness ==
    \E p \in Procs :
        /\ calls[p].pc = "done" /\ calls[p].op = "login"
        /\ calls[p].user.enable2FA
        /\ calls[p].res.mfaRequired

\* C7: a login with an email no user has and a login with a wrong password
\* for an existing email fail alike (BadRequest, AUTH_USER_NOT_FOUND, the
\* same message), and neither creates a session.
C7_UniformLoginFailure ==
    /\ LoginNoUserFailure = LoginBadPasswordFailure
    /\ \A p \in Procs :
        LET c == calls[p] IN
        (/\ c.pc = "done" /\ c.op = "login"
         /\ (c.user = NoUser \/ ~comparePassword(c.user, c.password)))
        => /\ c.res.status = "error"
           /\ c.res.exception = "BadRequestException"
           /\ c.res.code = "AUTH_USER_NOT_FOUND"
           /\ c.res.message = "Invalid email or password provided"
           /\ c.res = LoginNoUserFailure
           /\ TokensOf(c.res) = {}
           /\ c.sessionWrites = 0
           /\ c.session = NoSession

\* a login with a wrong password for an existing email has failed
C7_Witness ==
    \E p \in Procs :
        /\ calls[p].pc = "done" /\ calls[p].op = "login"
        /\ calls[p].user # NoUser
        /\ ~comparePassword(calls[p].user, calls[p].password)
        /\ calls[p].res.code = "AUTH_USER_NOT_FOUND"

\* the step of register that finds the email taken
C8_Act ==
    \A p \in Procs :
        (calls[p].pc = "idle" /\ calls'[p].op = "register"
         /\ UserExists(calls'[p].email))
        => /\ calls'[p].pc = "done"
           /\ calls'[p].res.status = "error"
           /\ calls'[p].res.exception = "BadRequestException"
           /\ calls'[p].res.code = "AUTH_EMAIL_ALREADY_EXISTS"
           /\ users' = users
           /\ codes' = codes

\* no two user documents share an email
C8_UniqueEmails ==
    \A i, j \in 1..Len(users) : users[i].email = users[j].email => i = j

\* C8: register for an email that has a persisted user fails with
\* BadRequest AUTH_EMAIL_ALREADY_EXISTS and creates neither a user nor a
\* verification code; no two persisted users share an email.
C8_DuplicateRegisterFails == [][C8_Act]_vars /\ []C8_UniqueEmails

\* a register for an email that had a user from the start has failed
C8_Witness ==
    \E p \in Procs :
        /\ calls[p].pc = "done" /\ calls[p].op = "register"
        /\ calls[p].email = "u@x.io"
        /\ calls[p].res.code = "AUTH_EMAIL_ALREADY_EXISTS"
        /\ Len(codes) = 0

\* C9: no step lowers the expiredAt of a session.
C9_ExpiredAtNeverDecreases ==
    [][\A i \in 1..Len(sessions) :
          sessions'[i].expiredAt >= sessions[i].expiredAt]_vars

\* C10: an access token issued by login or refreshToken, presented to
\* refreshToken, does not verify: the call fails with "Invalid refresh
\* token", and only a token signed with the refresh options reaches the
\* session lookup.
C10_TokenKindsNotInterchangeable ==
    /\ \A t \in issued :
         t.secret = AccessSecret => verifyJwtToken(t, RefreshSecret) = NoPayload
    /\ \A p \in Procs :
        LET c == calls[p] IN
        /\ (c.op = "refresh" /\ c.token.secret = AccessSecret)
           => /\ c.pc = "done"
              /\ UnauthorizedWith(c.res, "Invalid refresh token")
              /\ c.sessionReads = 0
        /\ (c.op = "refresh" /\ (c.sessionReads > 0 \/ c.pc \in {"refresh_check", "refresh_save"}))
           => c.token.secret = RefreshSecret

\* an access token that a login or a refresh returned was presented to
\* refreshToken and rejected
C10_Witness ==
    \E p \in Procs :
        /\ calls[p].pc = "done" /\ calls[p].op = "refresh"
        /\ calls[p].token \in issued
        /\ calls[p].token.secret = AccessSecret
        /\ calls[p].token.exp > now
        /\ calls[p].res.message = "Invalid refresh token"

\* ---------------------------------------------------------------------- C11
\* C11: expiry is terminal: from a state in which a session's expiredAt is at
\* or before the clock, no step extends that session's expiredAt, and every
\* refreshToken call for that session that completes in such a step fails;
\* a call that was in flight when the session expired is no exception
C11_ExpiryIsTerminal ==
    [][\A i \in 1..Len(sessions) :
          sessions[i].expiredAt <= now =>
             /\ sessions'[i].expiredAt <= sessions[i].expiredAt
             /\ \A p \in Procs :
                   ( /\ calls[p].pc # "done" /\ calls'[p].pc = "done"
                     /\ calls'[p].op = "refresh" /\ calls'[p].sessionReads = 1
                     /\ calls'[p].token.sessionId = i )
                   => calls'[p].res.status = "error"]_vars

\* ---------------------------------------------------------------------- C12
\* lines 113-130: the three checks of refreshToken, evaluated on a token in
\* the current state: the token verifies, its session exists and the
\* session has not expired
RefreshAccepts(token) ==
    LET payload == verifyJwtToken(token, RefreshVerifySecret)
        session == FindSession(payload.sessionId)
    IN /\ ~InvalidPayload(payload)
       /\ session # NoSession
       /\ ~SessionExpired(session.expiredAt, now)

\* C12: concurrent rotations are not exclusive: a refreshToken call that
\* observed the rotation condition and whose session has been rotated by
\* another call since it read it (the stored expiredAt is no longer the one
\* it read) still saves its own expiredAt and returns a newly signed refresh
\* token for the same session
C12_ConcurrentRotationsBothSucceed ==
    [][\A p \in Procs :
          ( /\ calls[p].pc = "refresh_save" /\ calls'[p].pc = "done"
            /\ sessions[calls[p].token.sessionId].expiredAt # calls[p].readExpiredAt )
          => /\ calls'[p].res.status = "ok"
             /\ calls'[p].res.newRefreshToken =
                   [secret |-> RefreshSecret, claims |-> {"sessionId"}, userId |-> 0,
                    sessionId |-> calls[p].token.sessionId, exp |-> now + ttl]
             /\ sessions'[calls[p].token.sessionId].expiredAt =
                   calls[p].session.expiredAt]_vars

\* a call rotated a session that another call had rotated after this call
\* read it; the two new refresh tokens are distinct, neither is the token the
\* call presented, and both pass the three checks of refreshToken
C12_Witness ==
    \E p \in Procs : \E t1 \in issued :
        LET c == calls[p]
            t2 == c.res.newRefreshToken
        IN /\ RefreshReturned(c) /\ c.sessionWrites = 1
           /\ c.replaced # c.readExpiredAt
           /\ t1.secret = RefreshSecret /\ t1.sessionId = c.token.sessionId
           /\ t1 # t2 /\ t1 # c.token /\ t1.exp > c.token.exp
           /\ RefreshAccepts(t1) /\ RefreshAccepts(t2)

\* ---------------------------------------------------------------------- C13
\* the step of a register call that passed the existence check: when another
\* call has persisted a user with its email since, it fails with the
\* condition of the existence check and writes nothing; otherwise it
\* persists one user
C13_Act ==
    \A p \in Procs :
        (calls[p].pc = "register_create" /\ calls'[p] # calls[p])
        => IF UserExists(calls[p].email)
           THEN /\ calls'[p].pc = "done"
                /\ calls'[p].res = RegisterDuplicateFailure
                /\ calls'[p].user = NoUser
                /\ users' = users
                /\ codes' = codes
           ELSE /\ calls'[p].pc = "register_verification"
                /\ Len(users') = Len(users) + 1
                /\ codes' = codes

\* at most one user is persisted per email, and a verification code exists
\* only for a persisted user, one per user
C13_Inv ==
    /\ \A e \in Emails : Cardinality({i \in 1..Len(users) : users[i].email = e}) <= 1
    /\ \A k \in 1..Len(codes) :
          /\ codes[k].userId \in 1..Len(users)
          /\ \A l \in 1..Len(codes) : codes[l].userId = codes[k].userId => l = k

\* C13: of register calls for the same email that interleave so that all
\* pass the existence check, at most one persists a user; each other one
\* fails with the same BadRequest AUTH_EMAIL_ALREADY_EXISTS failure as the
\* existence check and creates no verification code
C13_RegisterRaceLoserFails == []C13_Inv /\ [][C13_Act]_vars

\* a register call passed the existence check, was rejected by
\* UserModel.create and failed with AUTH_EMAIL_ALREADY_EXISTS; one user has
\* the email
C13_Witness ==
    \E p \in Procs :
        /\ calls[p].pc = "done" /\ calls[p].op = "register"
        /\ calls[p].userCreates = 1
        /\ calls[p].res.status = "error"
        /\ calls[p].res.code = "AUTH_EMAIL_ALREADY_EXISTS"
        /\ Cardinality({i \in 1..Len(users) : users[i].email = calls[p].email}) = 1

\* ---------------------------------------------------------------------- C14
\* the call in slot p completes a rotation in this step
C14_Rotates(p) ==
    /\ calls[p].pc = "refresh_save" /\ calls'[p].pc = "done"
    /\ calls'[p].res.status = "ok"
    /\ calls'[p].res.newRefreshToken # NoToken

\* what a step may do to the sessions that exist
C14_Act ==
    /\ Len(sessions') >= Len(sessions)
    /\ \A i \in 1..Len(sessions) :
          \/ sessions'[i] = sessions[i]
          \/ \E p \in Procs :
                /\ C14_Rotates(p)
                /\ calls[p].token.sessionId = i
                /\ sessions'[i] =
                      [sessions[i] EXCEPT !.expiredAt = calls[p].session.expiredAt]
                /\ \A j \in 1..Len(sessions) : j # i => sessions'[j] = sessions[j]
    /\ \A p \in Procs :
          (calls'[p] # calls[p] /\ ~C14_Rotates(p))
          => \A i \in 1..Len(sessions) : sessions'[i] = sessions[i]

\* C14: existing sessions are changed only by a rotating refreshToken call:
\* every step of register, of login (whatever its outcome) and of a failing
\* or non-rotating refreshToken leaves every existing session as it was, and
\* a rotation changes only the expiredAt of the session its token names,
\* not its id, userId or userAgent and no other session
C14_SessionsFrame == [][C14_Act]_vars

\* two sessions exist and a refreshToken call has just rotated one of them
\* to a later expiredAt
C14_Witness ==
    \E p \in Procs :
        /\ Len(sessions) = 2
        /\ RefreshReturned(calls[p]) /\ calls[p].sessionWrites = 1
        /\ sessions[calls[p].token.sessionId].expiredAt > calls[p].replaced

\* ---------------------------------------------------------------------- C15
\* a refreshToken call whose token verified and whose lookup found no
\* session has failed with Unauthorized "Session does not exist", holding no
\* token and having written no session
C15_Inv ==
    \A p \in Procs :
        LET c == calls[p]
        IN (c.pc = "done" /\ c.op = "refresh" /\ c.sessionReads = 1
            /\ c.token.sessionId \notin 1..Len(sessions))
           => /\ UnauthorizedWith(c.res, "Session does not exist")
              /\ c.sessionWrites = 0

\* the steps of such a call leave the session collection as it was
C15_Frame ==
    \A p \in Procs :
        (calls'[p] # calls[p] /\ calls'[p].op = "refresh"
         /\ calls'[p].token.secret = RefreshSecret
         /\ calls'[p].token.sessionId \notin 1..Len(sessions))
        => sessions' = sessions

\* C15: a refresh token that verifies and whose session id matches no session
\* makes refreshToken fail with Unauthorized "Session does not exist"; the
\* call issues no token and neither creates nor modifies a session
C15_MissingSessionFails == []C15_Inv /\ [][C15_Frame]_vars

\* a refresh token that verifies and names a session that does not exist was
\* presented and the call has failed with "Session does not exist"
C15_Witness ==
    \E p \in Procs :
        /\ calls[p].pc = "done" /\ calls[p].op = "refresh"
        /\ verifyJwtToken(calls[p].token, RefreshSecret) # NoPayload
        /\ FindSession(calls[p].token.sessionId) = NoSession
        /\ calls[p].res.message = "Session does not exist"

\* ---------------------------------------------------------------------- C16
\* C16: every refreshToken call that succeeds, rotating or not, returns an
\* access token signed with the access secret whose payload is the userId
\* of the session and the sessionId of the presented token; a refreshToken
\* call returns an access token exactly when its token verified, its
\* session was found and the session had not expired at its Date.now()
C16_RefreshAccessToken ==
    \A p \in Procs :
        LET c == calls[p]
            session == FindSession(c.token.sessionId)
        IN (c.pc = "done" /\ c.op = "refresh")
           => /\ c.res.status = "ok"
                 => /\ c.res.accessToken.secret = AccessSecret
                    /\ c.res.accessToken.claims = {"userId", "sessionId"}
                    /\ c.res.accessToken.userId = session.userId
                    /\ c.res.accessToken.sessionId = c.token.sessionId
                    /\ c.res.accessToken.exp > now
              /\ IsToken(c.res.accessToken)
                 <=> ( /\ c.sessionReads = 1 /\ c.token.secret = RefreshSecret
                       /\ session # NoSession
                       /\ c.readExpiredAt > c.now )
              /\ c.res.status = "ok" <=> IsToken(c.res.accessToken)

\* a rotating refreshToken call has returned an access token that carries
\* the id of the session's user
C16_Witness ==
    \E p \in Procs :
        /\ RefreshReturned(calls[p])
        /\ calls[p].res.status = "ok"
        /\ calls[p].res.newRefreshToken # NoToken
        /\ calls[p].res.accessToken.userId = sessions[calls[p].token.sessionId].userId
        /\ calls[p].res.accessToken.userId = FindUser("u@x.io").id

\* ---------------------------------------------------------------------- C17
\* C17: the session a non-MFA login creates starts with expiredAt = login
\* time + refresh TTL, the TTL rotation uses; so a refreshToken call whose
\* Date.now() is the login time, under a TTL above ONE_DAY_IN_MS, succeeds
\* without rotating
C17_InitialExpiry ==
    \A p \in Procs :
        LET c == calls[p]
        IN /\ CompletedLogin(c)
              => /\ sessions[c.session.id].expiredAt = now + ttl
                 /\ sessions[c.session.id].expiredAt = calculateExpirationDate(ttl)
           /\ (RefreshReturned(c) /\ c.readExpiredAt = c.now + ttl
               /\ ttl > ONE_DAY_IN_MS)
              => /\ c.res.status = "ok"
                 /\ c.res.newRefreshToken = NoToken
                 /\ c.sessionWrites = 0

\* under a TTL above one day, the refresh token of a login was presented at
\* the login time and the call has returned without a new refresh token
C17_Witness ==
    \E p \in Procs :
        /\ ttl > ONE_DAY_IN_MS
        /\ RefreshReturned(calls[p])
        /\ calls[p].token.exp = calls[p].readExpiredAt
        /\ calls[p].readExpiredAt = calls[p].now + ttl
        /\ calls[p].res.status = "ok"
        /\ calls[p].res.newRefreshToken = NoToken

\* ---------------------------------------------------------------------- C18
\* a register call that succeeded holds the user it created; that user is
\* the one persisted user with the email, and the one verification code of
\* that user has the type EMAIL_VERIFICATION and expires 45 minutes after
\* its creation; the call holds no token and touched no session
C18_Inv ==
    \A p \in Procs :
        LET c == calls[p]
            mine == {k \in 1..Len(codes) : codes[k].userId = c.res.user.id}
        IN (c.pc = "done" /\ c.op = "register" /\ c.res.status = "ok")
           => /\ c.res.user # NoUser
              /\ c.res.user.id \in 1..Len(users)
              /\ users[c.res.user.id] = c.res.user
              /\ c.res.user.email = c.email /\ c.res.user.name = c.name
              /\ Cardinality({i \in 1..Len(users) : users[i].email = c.email}) = 1
              /\ Cardinality(mine) = 1
              /\ \A k \in mine :
                    codes[k] = [userId |-> c.res.user.id,
                                type |-> "EMAIL_VERIFICATION",
                                expiresAt |-> now + FORTY_FIVE_MINUTES_IN_MS]
              /\ TokensOf(c.res) = {}
              /\ c.sessionReads = 0 /\ c.sessionWrites = 0

\* the steps of a register call create no session, and a register call
\* that ends with a success created one user and one verification code on
\* its way
C18_Act ==
    \A p \in Procs :
        (calls'[p] # calls[p] /\ calls'[p].op = "register")
        => /\ sessions' = sessions
           /\ Len(users') + Len(codes') <= Len(users) + Len(codes) + 1
           /\ calls'[p].res.status = "ok"
              => (users' = users /\ Len(codes') = Len(codes) + 1
                  /\ calls[p].pc = "register_verification"
                  /\ calls[p].userCreates = 1)

\* C18: a register call that succeeds (its email was unused) creates exactly
\* one user and exactly one verification code for that user, of type
\* EMAIL_VERIFICATION and expiring 45 minutes after its creation, returns
\* the created user, creates no session and issues no token
C18_RegisterSuccess == []C18_Inv /\ [][C18_Act]_vars

\* a register call for an email no user had has returned the user it created
C18_Witness ==
    \E p \in Procs :
        /\ calls[p].pc = "done" /\ calls[p].op = "register"
        /\ calls[p].res.status = "ok"
        /\ calls[p].res.user = users[Len(users)]
        /\ codes[Len(codes)].userId = calls[p].res.user.id

\* ---------------------------------------------------------------------- C19
\* C19: the MFA gate comes after the password comparison: a login returns
\* mfaRequired = TRUE only when a user has the email, the password matches
\* it and the user has 2FA enabled; a login with a wrong password for a user
\* with 2FA enabled fails with the BadRequest AUTH_USER_NOT_FOUND failure of
\* a wrong password for any user, so the result does not tell whether the
\* account has 2FA enabled
C19_MfaGateAfterPassword ==
    \A p \in Procs :
        LET c == calls[p]
            user == FindUser(c.email)
        IN (c.pc = "done" /\ c.op = "login")
           => /\ c.res.mfaRequired
                 => /\ user # NoUser
                    /\ comparePassword(user, c.password)
                    /\ user.enable2FA
              /\ (user # NoUser /\ ~comparePassword(user, c.password))
                 => /\ c.res = LoginBadPasswordFailure
                    /\ c.res.code = "AUTH_USER_NOT_FOUND"
                    /\ ~c.res.mfaRequired
                    /\ c.res = [c.res EXCEPT !.user = NoUser]

\* a login with a wrong password for a user with 2FA enabled has failed
\* with AUTH_USER_NOT_FOUND
C19_Witness ==
    \E p \in Procs :
        /\ calls[p].pc = "done" /\ calls[p].op = "login"
        /\ FindUser(calls[p].email) # NoUser
        /\ FindUser(calls[p].email).enable2FA
        /\ ~comparePassword(FindUser(calls[p].email), calls[p].password)
        /\ calls[p].res.code = "AUTH_USER_NOT_FOUND"
        /\ ~calls[p].res.mfaRequired

\* ---------------------------------------------------------------------- C20
\* the steps of a refreshToken call look at the signature and expiry of the
\* token and at the session record only: a token that verifies takes the
\* call to the lookup, a session found and unexpired takes it to success
\* (by way of the save when a rotation is due)
C20_Act ==
    \A p \in Procs :
        /\ ( /\ calls[p].pc = "idle" /\ calls'[p].op = "refresh"
             /\ verifyJwtToken(calls'[p].token, RefreshSecret) # NoPayload )
           => /\ calls'[p].pc = "refresh_check"
              /\ calls'[p].session = FindSession(calls'[p].token.sessionId)
        /\ ( /\ calls[p].pc = "refresh_check" /\ calls'[p] # calls[p]
             /\ calls[p].session # NoSession
             /\ calls[p].session.expiredAt > now )
           => \/ calls'[p].pc = "refresh_save"
              \/ calls'[p].pc = "done" /\ calls'[p].res.status = "ok"
        /\ (calls[p].pc = "refresh_save" /\ calls'[p] # calls[p])
           => calls'[p].pc = "done" /\ calls'[p].res.status = "ok"

\* C20: rotation does not revoke the refresh token that was presented: a
\* refreshToken call is accepted whenever its token verifies and the session
\* is found unexpired, whether or not a later refresh token has been issued
\* for the session
C20_OldTokenStillAccepted == [][C20_Act]_vars

\* a refresh token was presented after its session had been rotated past
\* the token's own expiry and a later refresh token for the session had been
\* handed out, and the call has succeeded
C20_Witness ==
    \E p \in Procs : \E t \in issued :
        LET c == calls[p]
        IN /\ RefreshReturned(c) /\ c.res.status = "ok"
           /\ c.token \in issued
           /\ c.readExpiredAt > c.token.exp
           /\ t.secret = RefreshSecret /\ t.sessionId = c.token.sessionId
           /\ t.exp > c.token.exp
====
